---- MODULE Spec2Model ----
(***************************************************************************)
(* A model of the three CI helper scripts of the repository:               *)
(*                                                                         *)
(*   labels/filter-repos.py              Repository List Filter            *)
(*   combine-config.py                   Config Merger                     *)
(*   .github/scripts/dockerhub_oat_manager.py   Token Rotator              *)
(*                                                                         *)
(* Each script is a run-to-completion process.  The three do not interact, *)
(* so each has its own specification (SpecFilter, SpecCfg, SpecRot) over   *)
(* its own variables; the variables of the other two scripts stay idle.    *)
(***************************************************************************)
EXTENDS Integers, Sequences, FiniteSets, TLC

VARIABLES
    \* ---- labels/filter-repos.py
    nodes,      \* data["data"]["organization"]["repositories"]["nodes"]
    repos,      \* the list `repos`
    fidx,       \* position of the for loop in `nodes`
    fpc,        \* "loop", "done", "crashed"
    outFile,    \* content of args.output_filename (a sequence of tokens), or Absent
    \* ---- combine-config.py
    defaultFile, \* the file at default_path (a sequence of section blocks), or Absent
    repoFile,    \* the file at repo_path, or Absent
    config,      \* the ConfigParser object `config`
    cpc,         \* "start", "write", "done", "crashed"
    cfgOut,      \* the file at output_path, or Absent
    \* ---- .github/scripts/dockerhub_oat_manager.py
    args,        \* the parsed flags: [create, revoke]
    env,         \* os.environ of the process ("" stands for unset or empty)
    registry,    \* the organization's access tokens held by the registry
    registry0,   \* the registry's tokens when the invocation started
    envFile,     \* the lines of the file GITHUB_ENV names
    trace,       \* what the process has emitted so far, in order:
                 \* masking directives, HTTP requests, export writes
    loc,         \* the local variables of create_oat and revoke_oats
    exc,         \* the exception that was raised, and where
    pc,          \* the position of the process
    exitCode     \* the exit status, NotExited until the process exits

filterVars == <<nodes, repos, fidx, fpc, outFile>>
cfgVars == <<defaultFile, repoFile, config, cpc, cfgOut>>

rotVars == <<args, env, registry, registry0, envFile, trace, loc, exc, pc, exitCode>>

vars == <<nodes, repos, fidx, fpc, outFile,
          defaultFile, repoFile, config, cpc, cfgOut,
          args, env, registry, registry0, envFile, trace, loc, exc, pc, exitCode>>

\* a path with no file at it
Absent == [exists |-> FALSE, content |-> << >>]
FileOf(c) == [exists |-> TRUE, content |-> c]

Range(s) == {s[i] : i \in 1..Len(s)}

(***************************************************************************)
(*                      Repository List Filter                             *)
(***************************************************************************)

MaxNodes == 3

HardcodedRepo == "scritical/.github"
ExcludedTopic == "paper"
NL == "\n"

\* A node whose "nameWithOwner" field is missing carries NoField there.
NoField == "<no field>"
RepoNames == {HardcodedRepo, "scritical/a", "scritical/b"}
TopicLists == {<< >>, <<"paper">>, <<"tool">>}
Node == [isArchived : BOOLEAN, topics : TopicLists,
         nameWithOwner : RepoNames \cup {NoField}]

NodeLists == UNION {[1..n -> Node] : n \in 0..MaxNodes}

\* "\n".join(repos) + "\n", as a sequence of tokens
RECURSIVE Join(_)
Join(s) ==
    IF Len(s) = 0 THEN << >>
    ELSE IF Len(s) = 1 THEN <<s[1]>>
    ELSE <<s[1], NL>> \o Join(Tail(s))

WriteLines(s) == Join(s) \o <<NL>>

\* the lines of a written file: the tokens between the line breaks
ReadLines(text) == SelectSeq(text, LAMBDA t : t # NL)

\* topics = [t["topic"]["name"] for t in d["repositoryTopics"]["nodes"]]
\* "paper" not in topics
HasExcludedTopic(d) == ExcludedTopic \in Range(d.topics)

\* The body of the for loop for one node d: the new value of `repos`, or
\* KeyError when a field that is read is missing.
Ok(rs) == [exc |-> "none", repos |-> rs]
KeyError(rs) == [exc |-> "KeyError", repos |-> rs]

\* the loop body without the `repoName not in repos` test
VisitNodeNoDedup(rs, d) ==
    IF ~d.isArchived
    THEN IF ~HasExcludedTopic(d)
         THEN IF d.nameWithOwner = NoField THEN KeyError(rs)
              ELSE Ok(Append(rs, d.nameWithOwner))
         ELSE Ok(rs)
    ELSE Ok(rs)

\* the loop body without the `isArchived` test
VisitNodeKeepArchived(rs, d) ==
    IF ~HasExcludedTopic(d)
    THEN IF d.nameWithOwner = NoField THEN KeyError(rs)
         ELSE IF d.nameWithOwner \notin Range(rs)
              THEN Ok(Append(rs, d.nameWithOwner))
              ELSE Ok(rs)
    ELSE Ok(rs)

\* the loop body as written
VisitNode(rs, d) ==
    IF ~d.isArchived
    THEN IF ~HasExcludedTopic(d)
         THEN IF d.nameWithOwner = NoField THEN KeyError(rs)
              ELSE IF d.nameWithOwner \notin Range(rs)
                   THEN Ok(Append(rs, d.nameWithOwner))
                   ELSE Ok(rs)
         ELSE Ok(rs)
    ELSE Ok(rs)

FilterIdle ==
    /\ nodes = << >>
    /\ repos = << >>
    /\ fidx = 0
    /\ fpc = "idle"
    /\ outFile = Absent

FilterStart ==
    /\ nodes \in NodeLists
    /\ repos = <<HardcodedRepo>>
    /\ fidx = 1
    /\ fpc = "loop"
    /\ outFile = Absent

\* one iteration of the for loop
FilterLoop ==
    /\ fpc = "loop"
    /\ fidx <= Len(nodes)
    /\ LET r == VisitNode(repos, nodes[fidx])
       IN  IF r.exc # "none"
           THEN /\ fpc' = "crashed"
                /\ UNCHANGED <<repos, fidx>>
           ELSE /\ repos' = r.repos
                /\ fidx' = fidx + 1
                /\ fpc' = fpc
    /\ UNCHANGED <<nodes, outFile>>
    /\ UNCHANGED <<cfgVars, rotVars>>

\* the loop is over: write out the list
FilterWrite ==
    /\ fpc = "loop"
    /\ fidx > Len(nodes)
    /\ outFile' = FileOf(WriteLines(repos))
    /\ fpc' = "done"
    /\ UNCHANGED <<nodes, repos, fidx>>
    /\ UNCHANGED <<cfgVars, rotVars>>

\* ---- what the claims speak about

Excluded(d) == d.isArchived \/ HasExcludedTopic(d)

OutLines == ReadLines(outFile.content)

\* index of the first node named n that the filter includes
FirstIncluded(n) ==
    CHOOSE i \in 1..Len(nodes) :
        /\ nodes[i].nameWithOwner = n
        /\ ~Excluded(nodes[i])
        /\ \A j \in 1..(i-1) : ~(nodes[j].nameWithOwner = n /\ ~Excluded(nodes[j]))

IncludedNames == {nodes[i].nameWithOwner : i \in {j \in 1..Len(nodes) : ~Excluded(nodes[j])}}

\* C9 as stated: no written name belongs to a node that is archived or
\* carries the topic 'paper', whatever the node's full name.
C9_NoExcludedNameWritten ==
    fpc = "done" =>
        \A i \in 1..Len(nodes) :
            Excluded(nodes[i]) => nodes[i].nameWithOwner \notin Range(OutLines)

\* C9 amended: every written name other than the hardcoded first entry is the
\* full name of at least one node that is neither archived nor tagged 'paper'.
C9_WrittenNamesAreIncluded ==
    fpc = "done" =>
        \A k \in 1..Len(OutLines) :
            OutLines[k] # HardcodedRepo => OutLines[k] \in IncludedNames

C9_Witness ==
    /\ fpc = "done"
    /\ Len(OutLines) >= 2
    /\ \E i \in 1..Len(nodes) :
          /\ nodes[i].isArchived
          /\ nodes[i].nameWithOwner \in RepoNames \ {HardcodedRepo}
          /\ nodes[i].nameWithOwner \notin Range(OutLines)
    /\ \E i \in 1..Len(nodes) :
          /\ ~nodes[i].isArchived
          /\ HasExcludedTopic(nodes[i])
          /\ nodes[i].nameWithOwner \in RepoNames \ {HardcodedRepo}
          /\ nodes[i].nameWithOwner \notin Range(OutLines)

MaxBlocks == 2
MaxOpts == 2
\* Two files that are merged hold at most MaxPairOpts options together.
MaxPairOpts == 3

DefaultSect == "DEFAULT"
SectionNames == {DefaultSect, "a", "b"}
Keys == {"x", "y"}

\* Raw values as they stand in a file: two plain values, a reference to the
\* option x, and an escaped per cent sign.
RefX == "%(x)s"
Escaped == "5%%"
RawValues == {"1", "2", RefX, Escaped}

\* An option list is an ordered dict: a sequence of <<key, value>> with
\* distinct keys.
OptLists ==
    {o \in UNION {[1..n -> Keys \X RawValues] : n \in 0..Cardinality(Keys)} :
        \A i, j \in 1..Len(o) : i # j => o[i][1] # o[j][1]}

RECURSIVE CountOpts(_)
CountOpts(f) == IF Len(f) = 0 THEN 0 ELSE Len(f[1].opts) + CountOpts(Tail(f))

\* the section headers of a file: no section name twice
HeaderLists ==
    {h \in UNION {[1..n -> SectionNames] : n \in 0..MaxBlocks} :
        \A i, j \in 1..Len(h) : i # j => h[i] # h[j]}

\* The files the parser accepts: no section header and no option twice.
FileContents ==
    UNION {{f \in {[i \in 1..Len(h) |-> [name |-> h[i], opts |-> o[i]]] :
                      o \in [1..Len(h) -> OptLists]} :
              CountOpts(f) <= MaxOpts} :
           h \in HeaderLists}

Files == {FileOf(f) : f \in FileContents} \cup {Absent}

HasKey(o, k) == \E i \in 1..Len(o) : o[i][1] = k
GetKey(o, k) == o[CHOOSE i \in 1..Len(o) : o[i][1] = k][2]

\* d[k] = v on an ordered dict: an existing key keeps its place
PutKey(o, k, v) ==
    IF HasKey(o, k)
    THEN [i \in 1..Len(o) |-> IF o[i][1] = k THEN <<k, v>> ELSE o[i]]
    ELSE Append(o, <<k, v>>)

RECURSIVE DictUpdate(_, _)
DictUpdate(d, o) ==
    IF Len(o) = 0 THEN d ELSE DictUpdate(PutKey(d, o[1][1], o[1][2]), Tail(o))

EmptyConfig == [defaults |-> << >>, sections |-> << >>]

\* ConfigParser.read(path) into an empty parser: a missing file is skipped;
\* the options under [DEFAULT] become the defaults, the other blocks the
\* sections, in file order.
ConfigRead(file) ==
    IF ~file.exists THEN EmptyConfig
    ELSE LET defs == SelectSeq(file.content, LAMBDA b : b.name = DefaultSect)
         IN  [defaults |-> IF Len(defs) = 0 THEN << >> ELSE defs[1].opts,
              sections |-> SelectSeq(file.content, LAMBDA b : b.name # DefaultSect)]

\* ConfigParser.sections(): the section names, without DEFAULT
Sections(c) == [i \in 1..Len(c.sections) |-> c.sections[i].name]

HasSection(c, s) == \E i \in 1..Len(c.sections) : c.sections[i].name = s
SectionOpts(c, s) ==
    c.sections[CHOOSE i \in 1..Len(c.sections) : c.sections[i].name = s].opts

AddSection(c, s) ==
    [c EXCEPT !.sections = Append(@, [name |-> s, opts |-> << >>])]

InterpolationError == "InterpolationError"
Good(c) == [exc |-> "none", cfg |-> c]
Raised(e) == [exc |-> e, cfg |-> EmptyConfig]

\* BasicInterpolation.before_get of raw value v against the mapping d:
\* %% becomes %, %(x)s becomes the value of x (interpolated in turn when it
\* holds a per cent sign); a reference to a missing option and a reference
\* that leads back to itself raise.
Interpolate(v, d) ==
    IF v = Escaped THEN "5%"
    ELSE IF v = RefX
         THEN IF ~HasKey(d, "x") THEN InterpolationError
              ELSE LET w == GetKey(d, "x")
                   IN  IF w = RefX THEN InterpolationError
                       ELSE IF w = Escaped THEN "5%"
                       ELSE w
    ELSE v

\* ConfigParser.items(section): the defaults updated with the section's own
\* options, every value interpolated
Items(c, s) ==
    LET d == DictUpdate(c.defaults, SectionOpts(c, s))
    IN  [i \in 1..Len(d) |-> <<d[i][1], Interpolate(d[i][2], d)>>]

\* ConfigParser.set(section, key, value): BasicInterpolation.before_set
\* refuses a value holding a lone per cent sign
SetOption(c, s, k, v) ==
    IF v = "5%" THEN Raised("ValueError")
    ELSE Good([c EXCEPT !.sections =
                [i \in 1..Len(@) |->
                    IF @[i].name = s
                    THEN [@[i] EXCEPT !.opts = PutKey(@, k, v)]
                    ELSE @[i]]])

RECURSIVE SetAll(_, _, _)
SetAll(c, s, items) ==
    IF Len(items) = 0 THEN Good(c)
    ELSE LET r == SetOption(c, s, items[1][1], items[1][2])
         IN  IF r.exc # "none" THEN r
             ELSE SetAll(r.cfg, s, Tail(items))

\* one round of `for section in config_repo.sections()`
MergeSection(c, cr, s) ==
    LET c0 == IF ~HasSection(c, s) THEN AddSection(c, s) ELSE c
        items == Items(cr, s)
    IN  IF \E i \in 1..Len(items) : items[i][2] = InterpolationError
        THEN Raised(InterpolationError)
        ELSE SetAll(c0, s, items)

RECURSIVE MergeSections(_, _, _)
MergeSections(c, cr, ss) ==
    IF Len(ss) = 0 THEN Good(c)
    ELSE LET r == MergeSection(c, cr, ss[1])
         IN  IF r.exc # "none" THEN r
             ELSE MergeSections(r.cfg, cr, Tail(ss))

\* merge_configs up to the write: the merged parser, or the exception raised
MergeConfigs(dflt, repo) ==
    LET c == ConfigRead(dflt)
    IN  IF repo.exists
        THEN LET cr == ConfigRead(repo)
             IN  MergeSections(c, cr, Sections(cr))
        ELSE Good(c)

\* ConfigParser.write(f): the defaults under [DEFAULT] when there are any,
\* then every section, the values as stored
\* a writer that leaves the defaults out
ConfigWriteNoDefaults(c) == FileOf(c.sections)

ConfigWrite(c) ==
    FileOf((IF Len(c.defaults) > 0
            THEN <<[name |-> DefaultSect, opts |-> c.defaults]>>
            ELSE << >>) \o c.sections)

CfgIdle ==
    /\ defaultFile = Absent
    /\ repoFile = Absent
    /\ config = EmptyConfig
    /\ cpc = "idle"
    /\ cfgOut = Absent

CfgStart ==
    /\ defaultFile \in Files
    /\ repoFile \in Files
    /\ CountOpts(defaultFile.content) + CountOpts(repoFile.content) <= MaxPairOpts
    /\ config = EmptyConfig
    /\ cpc = "start"
    /\ cfgOut = Absent

CfgStartNoRepo ==
    /\ defaultFile \in Files
    /\ repoFile = Absent
    /\ config = EmptyConfig
    /\ cpc = "start"
    /\ cfgOut = Absent

\* read the default config, read and merge the repo config if it exists
CfgMerge ==
    /\ cpc = "start"
    /\ LET c == MergeConfigs(defaultFile, repoFile)
       IN  IF c.exc # "none"
           THEN /\ cpc' = "crashed"
                /\ config' = config
           ELSE /\ cpc' = "write"
                /\ config' = c.cfg
    /\ UNCHANGED <<defaultFile, repoFile, cfgOut>>
    /\ UNCHANGED <<filterVars, rotVars>>

\* write merged config
CfgWrite ==
    /\ cpc = "write"
    /\ cfgOut' = ConfigWrite(config)
    /\ cpc' = "done"
    /\ UNCHANGED <<defaultFile, repoFile, config>>
    /\ UNCHANGED <<filterVars, rotVars>>

\* ---- what the claims speak about

\* the (section, key) pairs of a file, [DEFAULT] included, and their values
Pairs(file) ==
    UNION {{<<file.content[i].name, file.content[i].opts[j][1]>> :
                j \in 1..Len(file.content[i].opts)} :
            i \in 1..Len(file.content)}

ValueOf(file, p) ==
    LET f == file.content
    IN  GetKey(f[CHOOSE i \in 1..Len(f) : f[i].name = p[1]].opts, p[2])

\* C7 as stated: every (section, key) pair of either input, [DEFAULT]
\* included, is in the written document, and a pair of both inputs is written
\* with the override file's value.
C7_EveryPairWrittenOverrideWins ==
    (cpc = "done" /\ repoFile.exists) =>
        \A p \in Pairs(defaultFile) \cup Pairs(repoFile) :
            /\ p \in Pairs(cfgOut)
            /\ p \in Pairs(defaultFile) \cap Pairs(repoFile)
                  => ValueOf(cfgOut, p) = ValueOf(repoFile, p)

\* C8: with no override file the process always writes, and the written
\* document has exactly the sections, keys, values and ordering of the
\* default document (an empty one when the default file is missing).
C8_AbsentOverrideIsIdentity ==
    /\ cpc # "crashed"
    /\ cpc = "done" => ConfigRead(cfgOut) = ConfigRead(defaultFile)

C8_Witness ==
    /\ cpc = "done"
    /\ ~repoFile.exists
    /\ defaultFile.exists
    /\ Len(defaultFile.content) = 2
    /\ defaultFile.content[2].name = DefaultSect
    /\ defaultFile.content[2].opts = <<<<"y", RefX>>>>
    /\ Len(defaultFile.content[1].opts) = 1
    /\ cfgOut # defaultFile

(***************************************************************************)
(*                           Token Rotator                                 *)
(***************************************************************************)

\* The registry holds at most MaxTokens tokens when the invocation starts,
\* and at most MaxUnset of the four variables create_oat requires are unset.
MaxTokens == 3
MaxUnset == 1

\* the listing asks for one page of this size
PageSize == 100

NotExited == 0 - 1

LabelPrefix == "gh-actions-rotate-"
NullLabel == <<"<null>">>

\* A label is a sequence of chunks.  The labels a listed token may carry: one
\* of an earlier rotation, one that holds the prefix but not at its start,
\* and null.
Labels == {<<LabelPrefix, "41">>, <<"manual-", LabelPrefix>>, NullLabel}

\* str.startswith("gh-actions-rotate-")
StartsWithPrefix(label) == Len(label) >= 1 /\ label[1] = LabelPrefix

\* "" stands for an item of the listing that has no "id"
OldIds == {"t1", "t2"}
NewId == "t3"
NewSecret == "s3"
NewBearer == "b1"
StaleBearer == "b0"

Token == [id : OldIds \cup {""}, label : Labels]

Registries ==
    {r \in UNION {[1..n -> Token] : n \in 0..MaxTokens} :
        \A i, j \in 1..Len(r) : (i # j /\ r[i].id # "") => r[i].id # r[j].id}

RequiredByCreate ==
    {"DOCKERHUB_USERNAME", "DOCKERHUB_PASSWORD", "DOCKERHUB_ORG", "GITHUB_RUN_ID"}

Environments ==
    {e \in [DOCKERHUB_USERNAME : {"", "user"},
            DOCKERHUB_PASSWORD : {"", "pw"},
            DOCKERHUB_ORG : {"", "org"},
            GITHUB_RUN_ID : {"", "42"},
            GITHUB_ENV : {"", "/tmp/github_env"},
            DOCKERHUB_BEARER : {"", StaleBearer},
            NEW_OAT_ID : {"", "t1"}] :
        Cardinality({n \in RequiredByCreate : e[n] = ""}) <= MaxUnset}

\* what an earlier step of the job has exported already
EarlierLines == <<<<"CI_STEP", "=", "1">>>>

NoExc == [kind |-> "none", at |-> ""]
Raise(kind, at) == [kind |-> kind, at |-> at]

\* ---- the events of the trace
MaskEvent(v) ==
    [kind |-> "mask", what |-> "", arg |-> v, cred |-> "", status |-> ""]
HttpEvent(what, arg, cred, status) ==
    [kind |-> "http", what |-> what, arg |-> arg, cred |-> cred, status |-> status]
WriteEvent(key, v) ==
    [kind |-> "write", what |-> key, arg |-> v, cred |-> "", status |-> ""]

\* mask_value: nothing is printed for an empty value
MaskValue(v) == IF v # "" THEN <<MaskEvent(v)>> ELSE << >>

\* require_env: a missing or empty variable raises
Missing(e, name) == e[name] = ""

\* the first of `names` that require_env refuses, "" when there is none
RECURSIVE FirstMissing(_, _)
FirstMissing(e, names) ==
    IF Len(names) = 0 THEN ""
    ELSE IF Missing(e, names[1]) THEN names[1]
    ELSE FirstMissing(e, Tail(names))

\* write_github_env(key, value): the line appended
EnvLine(key, v) == <<key, "=", v>>

\* ---- the registry's side
AuthResponses ==
    {[status |-> "error", access_token |-> ""],
     [status |-> "ok", access_token |-> NewBearer],
     [status |-> "ok", access_token |-> ""]}

MintResponses ==
    {[status |-> "error", token |-> "", id |-> ""],
     [status |-> "ok", token |-> NewSecret, id |-> NewId],
     [status |-> "ok", token |-> "", id |-> NewId],
     [status |-> "ok", token |-> NewSecret, id |-> ""]}

\* GET .../access-tokens?page_size=100: the first page
Listing(reg) == SubSeq(reg, 1, IF Len(reg) < PageSize THEN Len(reg) ELSE PageSize)

ListResponses(reg) ==
    {[status |-> "error", results |-> << >>],
     [status |-> "ok", results |-> Listing(reg)],
     [status |-> "ok", results |-> << >>]}

RemoveToken(reg, id) == SelectSeq(reg, LAMBDA t : t.id # id)

\* ---- create_oat

\* username, password, org and run id are read, then the two credentials masked
CreateEnvBody(e) ==
    LET m == FirstMissing(e, <<"DOCKERHUB_USERNAME", "DOCKERHUB_PASSWORD",
                               "DOCKERHUB_ORG", "GITHUB_RUN_ID">>)
    IN  IF m # ""
        THEN [exc |-> Raise("RuntimeError", "create-env"), events |-> << >>]
        ELSE [exc |-> NoExc,
              events |-> MaskValue(e.DOCKERHUB_USERNAME) \o MaskValue(e.DOCKERHUB_PASSWORD)]

\* the body with the export of the bearer token ahead of its masking
CreateAuthBodyWriteBeforeMask(e, resp) ==
    LET req == HttpEvent("POST auth", e.DOCKERHUB_USERNAME, e.DOCKERHUB_PASSWORD,
                         resp.status)
        tok == resp.access_token
    IN  IF resp.status = "error"
        THEN [exc |-> Raise("RuntimeError", "auth"), events |-> <<req>>,
              lines |-> << >>, access_token |-> ""]
        ELSE IF tok = ""
        THEN [exc |-> Raise("RuntimeError", "auth-shape"), events |-> <<req>>,
              lines |-> << >>, access_token |-> ""]
        ELSE IF Missing(e, "GITHUB_ENV")
        THEN [exc |-> Raise("RuntimeError", "write-bearer"),
              events |-> <<req>>,
              lines |-> << >>, access_token |-> tok]
        ELSE [exc |-> NoExc,
              events |-> <<req>> \o <<WriteEvent("DOCKERHUB_BEARER", tok)>>
                            \o MaskValue(tok),
              lines |-> <<EnvLine("DOCKERHUB_BEARER", tok)>>,
              access_token |-> tok]

\* the body with the export of the bearer token ahead of the check of the
\* response
CreateAuthBodyWriteUnchecked(e, resp) ==
    LET req == HttpEvent("POST auth", e.DOCKERHUB_USERNAME, e.DOCKERHUB_PASSWORD,
                         resp.status)
        tok == resp.access_token
    IN  IF resp.status = "error"
        THEN [exc |-> Raise("RuntimeError", "auth"), events |-> <<req>>,
              lines |-> << >>, access_token |-> ""]
        ELSE IF Missing(e, "GITHUB_ENV")
        THEN [exc |-> Raise("RuntimeError", "write-bearer"),
              events |-> <<req>> \o MaskValue(tok),
              lines |-> << >>, access_token |-> tok]
        ELSE IF tok = ""
        THEN [exc |-> Raise("RuntimeError", "auth-shape"),
              events |-> <<req>> \o <<WriteEvent("DOCKERHUB_BEARER", tok)>>,
              lines |-> <<EnvLine("DOCKERHUB_BEARER", tok)>>, access_token |-> ""]
        ELSE [exc |-> NoExc,
              events |-> <<req>> \o MaskValue(tok)
                            \o <<WriteEvent("DOCKERHUB_BEARER", tok)>>,
              lines |-> <<EnvLine("DOCKERHUB_BEARER", tok)>>,
              access_token |-> tok]

\* the auth request, the check of its response, the masking and the export
\* of the bearer token
CreateAuthBody(e, resp) ==
    LET req == HttpEvent("POST auth", e.DOCKERHUB_USERNAME, e.DOCKERHUB_PASSWORD,
                         resp.status)
        tok == resp.access_token
    IN  IF resp.status = "error"
        THEN [exc |-> Raise("RuntimeError", "auth"), events |-> <<req>>,
              lines |-> << >>, access_token |-> ""]
        ELSE IF tok = ""
        THEN [exc |-> Raise("RuntimeError", "auth-shape"), events |-> <<req>>,
              lines |-> << >>, access_token |-> ""]
        ELSE IF Missing(e, "GITHUB_ENV")
        THEN [exc |-> Raise("RuntimeError", "write-bearer"),
              events |-> <<req>> \o MaskValue(tok),
              lines |-> << >>, access_token |-> tok]
        ELSE [exc |-> NoExc,
              events |-> <<req>> \o MaskValue(tok)
                            \o <<WriteEvent("DOCKERHUB_BEARER", tok)>>,
              lines |-> <<EnvLine("DOCKERHUB_BEARER", tok)>>,
              access_token |-> tok]

\* the body with id and secret exported under each other's key
CreateMintBodySwapped(e, bearer, resp) ==
    LET req == HttpEvent("POST token", e.GITHUB_RUN_ID, bearer, resp.status)
    IN  IF resp.status = "error"
        THEN [exc |-> Raise("RuntimeError", "mint"), events |-> <<req>>,
              lines |-> << >>, new_oat |-> "", new_oat_id |-> ""]
        ELSE IF resp.token = "" \/ resp.id = ""
        THEN [exc |-> Raise("RuntimeError", "mint-shape"), events |-> <<req>>,
              lines |-> << >>, new_oat |-> resp.token, new_oat_id |-> resp.id]
        ELSE IF Missing(e, "GITHUB_ENV")
        THEN [exc |-> Raise("RuntimeError", "write-id"),
              events |-> <<req>> \o MaskValue(resp.token),
              lines |-> << >>, new_oat |-> resp.token, new_oat_id |-> resp.id]
        ELSE [exc |-> NoExc,
              events |-> <<req>> \o MaskValue(resp.token)
                            \o <<WriteEvent("NEW_OAT_ID", resp.token),
                                 WriteEvent("NEW_OAT", resp.id)>>,
              lines |-> <<EnvLine("NEW_OAT_ID", resp.token),
                          EnvLine("NEW_OAT", resp.id)>>,
              new_oat |-> resp.token, new_oat_id |-> resp.id]

\* the token-creation request with the bearer token, the check of its
\* response, the masking of the new secret and the export of id and secret
CreateMintBody(e, bearer, resp) ==
    LET req == HttpEvent("POST token", e.GITHUB_RUN_ID, bearer, resp.status)
    IN  IF resp.status = "error"
        THEN [exc |-> Raise("RuntimeError", "mint"), events |-> <<req>>,
              lines |-> << >>, new_oat |-> "", new_oat_id |-> ""]
        ELSE IF resp.token = "" \/ resp.id = ""
        THEN [exc |-> Raise("RuntimeError", "mint-shape"), events |-> <<req>>,
              lines |-> << >>, new_oat |-> resp.token, new_oat_id |-> resp.id]
        ELSE IF Missing(e, "GITHUB_ENV")
        THEN [exc |-> Raise("RuntimeError", "write-id"),
              events |-> <<req>> \o MaskValue(resp.token),
              lines |-> << >>, new_oat |-> resp.token, new_oat_id |-> resp.id]
        ELSE [exc |-> NoExc,
              events |-> <<req>> \o MaskValue(resp.token)
                            \o <<WriteEvent("NEW_OAT_ID", resp.id),
                                 WriteEvent("NEW_OAT", resp.token)>>,
              lines |-> <<EnvLine("NEW_OAT_ID", resp.id),
                          EnvLine("NEW_OAT", resp.token)>>,
              new_oat |-> resp.token, new_oat_id |-> resp.id]

\* ---- revoke_oats

IdsOf(items) == [i \in 1..Len(items) |-> items[i].id]

\* the selection without the test of the label
SelectOldIdsAnyLabel(results, keep_id) ==
    IdsOf(SelectSeq(results, LAMBDA item : item.id # keep_id))

\* old_ids: the ids of the listed items whose label starts with the prefix
\* and whose id is not keep_id
SelectOldIds(results, keep_id) ==
    IdsOf(SelectSeq(results,
                    LAMBDA item : StartsWithPrefix(item.label) /\ item.id # keep_id))

\* a null label has no startswith
HasNullLabel(results) == \E i \in 1..Len(results) : results[i].label = NullLabel

\* a request_no_body that swallows the refusal
DeleteOutcomeIgnored(status) == NoExc

\* request_no_body: a non-2xx answer raises
DeleteOutcome(status) ==
    IF status = "error" THEN Raise("RuntimeError", "delete") ELSE NoExc

\* sys.exit(1) of the handler
ExitStatusOnError == 1

\* the token the registry creates for the payload of create_oat
MintedToken == [id |-> NewId, label |-> <<LabelPrefix, env.GITHUB_RUN_ID>>]

NoLocals ==
    [access_token |-> "", new_oat |-> "", new_oat_id |-> "", minted |-> FALSE,
     bearer |-> "", keep_id |-> "", listed |-> FALSE, results |-> << >>,
     old_ids |-> << >>, idx |-> 0]

RotIdle ==
    /\ args = [create |-> FALSE, revoke |-> FALSE]
    /\ env = [DOCKERHUB_USERNAME |-> "", DOCKERHUB_PASSWORD |-> "",
              DOCKERHUB_ORG |-> "", GITHUB_RUN_ID |-> "", GITHUB_ENV |-> "",
              DOCKERHUB_BEARER |-> "", NEW_OAT_ID |-> ""]
    /\ registry = << >>
    /\ registry0 = << >>
    /\ envFile = << >>
    /\ trace = << >>
    /\ loc = NoLocals
    /\ exc = NoExc
    /\ pc = "idle"
    /\ exitCode = NotExited

RotStart ==
    /\ args \in [create : BOOLEAN, revoke : BOOLEAN]
    /\ env \in Environments
    /\ registry \in Registries
    /\ registry0 = registry
    /\ envFile = EarlierLines
    /\ trace = << >>
    /\ loc = NoLocals
    /\ exc = NoExc
    /\ pc = "main"
    /\ exitCode = NotExited

\* main: no flag is an error, --create goes first
RotMain ==
    /\ pc = "main"
    /\ IF ~args.create /\ ~args.revoke
       THEN /\ exc' = Raise("RuntimeError", "main")
            /\ pc' = "except"
       ELSE /\ exc' = exc
            /\ pc' = IF args.create THEN "create" ELSE "revoke"
    /\ UNCHANGED <<args, env, registry, registry0, envFile, trace, loc, exitCode>>
    /\ UNCHANGED <<filterVars, cfgVars>>

AfterCreate == IF args.revoke THEN "revoke" ELSE "return"

CreateEnv ==
    /\ pc = "create"
    /\ LET b == CreateEnvBody(env)
       IN  /\ trace' = trace \o b.events
           /\ exc' = b.exc
           /\ pc' = IF b.exc # NoExc THEN "except" ELSE "auth"
    /\ UNCHANGED <<args, env, registry, registry0, envFile, loc, exitCode>>
    /\ UNCHANGED <<filterVars, cfgVars>>

CreateAuth ==
    /\ pc = "auth"
    /\ \E resp \in AuthResponses :
          LET b == CreateAuthBody(env, resp)
          IN  /\ trace' = trace \o b.events
              /\ envFile' = envFile \o b.lines
              /\ loc' = [loc EXCEPT !.access_token = b.access_token]
              /\ exc' = b.exc
              /\ pc' = IF b.exc # NoExc THEN "except" ELSE "mint"
    /\ UNCHANGED <<args, env, registry, registry0, exitCode>>
    /\ UNCHANGED <<filterVars, cfgVars>>

CreateMint ==
    /\ pc = "mint"
    /\ \E resp \in MintResponses :
          LET b == CreateMintBody(env, loc.access_token, resp)
          IN  /\ trace' = trace \o b.events
              /\ envFile' = envFile \o b.lines
              /\ registry' =
                    IF resp.status = "ok"
                    THEN Append(registry, MintedToken)
                    ELSE registry
              /\ loc' = [loc EXCEPT !.new_oat = b.new_oat,
                                    !.new_oat_id = b.new_oat_id,
                                    !.minted = (resp.status = "ok")]
              /\ exc' = b.exc
              /\ pc' = IF b.exc # NoExc THEN "except" ELSE AfterCreate
    /\ UNCHANGED <<args, env, registry0, exitCode>>
    /\ UNCHANGED <<filterVars, cfgVars>>

\* org, bearer and keep_id are read, the tokens listed and old_ids selected
RevokeList ==
    /\ pc = "revoke"
    /\ IF FirstMissing(env, <<"DOCKERHUB_ORG", "DOCKERHUB_BEARER", "NEW_OAT_ID">>) # ""
       THEN /\ exc' = Raise("RuntimeError", "revoke-env")
            /\ pc' = "except"
            /\ UNCHANGED <<trace, loc>>
       ELSE \E resp \in ListResponses(registry) :
               /\ trace' = Append(trace, HttpEvent("GET tokens", "",
                                                   env.DOCKERHUB_BEARER, resp.status))
               /\ IF resp.status = "error"
                  THEN /\ exc' = Raise("RuntimeError", "list")
                       /\ pc' = "except"
                       /\ loc' = [loc EXCEPT !.bearer = env.DOCKERHUB_BEARER,
                                             !.keep_id = env.NEW_OAT_ID]
                  ELSE IF HasNullLabel(resp.results)
                  THEN /\ exc' = Raise("AttributeError", "select")
                       /\ pc' = "except"
                       /\ loc' = [loc EXCEPT !.bearer = env.DOCKERHUB_BEARER,
                                             !.keep_id = env.NEW_OAT_ID,
                                             !.listed = TRUE,
                                             !.results = resp.results]
                  ELSE LET ids == SelectOldIds(resp.results, env.NEW_OAT_ID)
                       IN  /\ exc' = exc
                           /\ pc' = IF Len(ids) = 0 THEN "return" ELSE "delete"
                           /\ loc' = [loc EXCEPT !.bearer = env.DOCKERHUB_BEARER,
                                                 !.keep_id = env.NEW_OAT_ID,
                                                 !.listed = TRUE,
                                                 !.results = resp.results,
                                                 !.old_ids = ids,
                                                 !.idx = 1]
    /\ UNCHANGED <<args, env, registry, registry0, envFile, exitCode>>
    /\ UNCHANGED <<filterVars, cfgVars>>

\* one round of `for token_id in old_ids`
RevokeDelete ==
    /\ pc = "delete"
    /\ loc.idx <= Len(loc.old_ids)
    /\ LET token_id == loc.old_ids[loc.idx]
       IN  IF token_id = ""
           THEN /\ loc' = [loc EXCEPT !.idx = @ + 1]
                /\ UNCHANGED <<trace, registry, exc, pc>>
           ELSE \E status \in {"ok", "error"} :
                   /\ trace' = Append(trace, HttpEvent("DELETE token", token_id,
                                                       loc.bearer, status))
                   /\ registry' = IF status = "ok"
                                  THEN RemoveToken(registry, token_id)
                                  ELSE registry
                   /\ exc' = DeleteOutcome(status)
                   /\ IF DeleteOutcome(status) # NoExc
                      THEN pc' = "except" /\ loc' = loc
                      ELSE pc' = pc /\ loc' = [loc EXCEPT !.idx = @ + 1]
    /\ UNCHANGED <<args, env, registry0, envFile, exitCode>>
    /\ UNCHANGED <<filterVars, cfgVars>>

\* the loop is over: the count is printed and revoke_oats returns
RevokeDone ==
    /\ pc = "delete"
    /\ loc.idx > Len(loc.old_ids)
    /\ pc' = "return"
    /\ UNCHANGED <<args, env, registry, registry0, envFile, trace, loc, exc, exitCode>>
    /\ UNCHANGED <<filterVars, cfgVars>>

\* main returns 0
RotReturn ==
    /\ pc = "return"
    /\ exitCode' = 0
    /\ pc' = "exited"
    /\ UNCHANGED <<args, env, registry, registry0, envFile, trace, loc, exc>>
    /\ UNCHANGED <<filterVars, cfgVars>>

\* the handler of the entry point: the message goes to stderr, exit status 1
RotExcept ==
    /\ pc = "except"
    /\ exitCode' = ExitStatusOnError
    /\ pc' = "exited"
    /\ UNCHANGED <<args, env, registry, registry0, envFile, trace, loc, exc>>
    /\ UNCHANGED <<filterVars, cfgVars>>

RotNext ==
    \/ RotMain
    \/ CreateEnv
    \/ CreateAuth
    \/ CreateMint
    \/ RevokeList
    \/ RevokeDelete
    \/ RevokeDone
    \/ RotReturn
    \/ RotExcept

\* ---- what the claims speak about

IsRequest(ev) == ev.kind = "http"
Requests(t) == SelectSeq(t, IsRequest)
IsDelete(ev) == ev.kind = "http" /\ ev.what = "DELETE token"
Deletes == SelectSeq(trace, IsDelete)
DeleteTargets == [i \in 1..Len(Deletes) |-> Deletes[i].arg]
OkDeleted == {trace[i].arg : i \in {j \in 1..Len(trace) :
                                      IsDelete(trace[j]) /\ trace[j].status = "ok"}}

\* the lines this invocation has appended to the environment-export file
AppendedLines == SubSeq(envFile, Len(EarlierLines) + 1, Len(envFile))

IsPrefix(s, t) == Len(s) <= Len(t) /\ \A i \in 1..Len(s) : s[i] = t[i]

\* C1 as stated: with --create and --revoke, nothing of revoke_oats is issued
\* before create_oat has completed, and no DELETE request targets the id the
\* token-creation response of this invocation returned.
C1_RevokePreservesMintedToken ==
    (args.create /\ args.revoke) =>
        /\ \A i \in 1..Len(trace) :
              trace[i].what \in {"GET tokens", "DELETE token"}
                 => (loc.minted /\ Len(AppendedLines) = 3)
        /\ \A i \in 1..Len(trace) :
              (IsDelete(trace[i]) /\ loc.minted /\ loc.new_oat_id # "")
                 => trace[i].arg # loc.new_oat_id

\* the listed items the claim counts: label with the prefix, id not keep_id
Counted == SelectSeq(loc.results,
                     LAMBDA item : StartsWithPrefix(item.label) /\ item.id # loc.keep_id)

\* C2 as stated: for every token list the listing returned, revoke_oats
\* issues exactly N DELETE requests, one per listed token with the prefix and
\* an id other than NEW_OAT_ID, none for the preserved id, none for a token
\* without the prefix.
C2_ExactlyNDeletes ==
    (pc = "exited" /\ loc.listed) =>
        /\ Len(Deletes) = Len(Counted)
        /\ \A k \in 1..Len(Counted) :
              Cardinality({i \in 1..Len(Deletes) : Deletes[i].arg = Counted[k].id}) = 1
        /\ \A i \in 1..Len(Deletes) : Deletes[i].arg # loc.keep_id
        /\ \A i \in 1..Len(Deletes) :
              \E k \in 1..Len(loc.results) :
                 /\ loc.results[k].id = Deletes[i].arg
                 /\ StartsWithPrefix(loc.results[k].label)

\* C2 amended: the DELETE requests of revoke_oats go, in listing order, to the
\* listed tokens whose label starts with the prefix and whose id is non-empty
\* and differs from NEW_OAT_ID, never to the preserved id and never to a token
\* without the prefix; when revoke_oats returns without error there is
\* exactly one DELETE for each of them.
C2_DeletesAreTheSelectedNonEmptyIds ==
    LET expected == SelectSeq(IdsOf(Counted), LAMBDA id : id # "")
    IN  /\ IsPrefix(DeleteTargets, expected)
        /\ \A i \in 1..Len(Deletes) : Deletes[i].arg # loc.keep_id
        /\ \A i \in 1..Len(Deletes) :
              \E k \in 1..Len(loc.results) :
                 /\ loc.results[k].id = Deletes[i].arg
                 /\ StartsWithPrefix(loc.results[k].label)
        /\ (pc = "exited" /\ exitCode = 0 /\ loc.listed) => DeleteTargets = expected

C2_Witness ==
    /\ pc = "exited"
    /\ exitCode = 0
    /\ ~args.create
    /\ Len(Deletes) = 1
    /\ Len(loc.results) = 3
    /\ \E k \in 1..Len(loc.results) :
          loc.results[k].id = loc.keep_id /\ StartsWithPrefix(loc.results[k].label)
    /\ \E k \in 1..Len(loc.results) :
          loc.results[k].id = "" /\ StartsWithPrefix(loc.results[k].label)

\* C3: once the auth response has carried an access_token and the
\* token-creation response a token and an id, create_oat has appended exactly
\* the three lines DOCKERHUB_BEARER, NEW_OAT_ID and NEW_OAT, and the exported
\* NEW_OAT_ID is the id the creation response returned.
C3_CreateExportsThreeLines ==
    (loc.access_token # "" /\ loc.minted /\ loc.new_oat # "" /\ loc.new_oat_id # "") =>
        AppendedLines = <<EnvLine("DOCKERHUB_BEARER", loc.access_token),
                          EnvLine("NEW_OAT_ID", loc.new_oat_id),
                          EnvLine("NEW_OAT", loc.new_oat)>>

C3_Witness ==
    /\ pc = "exited"
    /\ exitCode = 0
    /\ args.create /\ ~args.revoke
    /\ loc.minted
    /\ loc.new_oat_id = NewId
    /\ Len(envFile) = Len(EarlierLines) + 3

\* an error has occurred: an exception was raised or a request was refused
ErrorOccurred ==
    \/ exc # NoExc
    \/ \E i \in 1..Len(trace) : IsRequest(trace[i]) /\ trace[i].status = "error"

\* C4: once an error has occurred, the invocation issues no further HTTP
\* request, appends no further line, and its only step is the exit with
\* status 1.
C4_ErrorsAreFatal ==
    [][ErrorOccurred =>
          /\ Requests(trace') = Requests(trace)
          /\ envFile' = envFile
          /\ registry' = registry
          /\ pc' = "exited"
          /\ exitCode' = 1]_vars

C4_Witness ==
    /\ pc = "exited"
    /\ exitCode = 1
    /\ exc.at = "delete"
    /\ Len(Deletes) = 2
    /\ Len(loc.old_ids) = 3

\* C5 as stated: an invocation that ends in an error has appended no line and
\* has neither created nor deleted a token.
C5_ErrorLeavesStateUntouched ==
    (pc = "exited" /\ exitCode = 1) =>
        /\ envFile = EarlierLines
        /\ registry = registry0

RECURSIVE RemoveAll(_, _)
RemoveAll(reg, ids) ==
    IF ids = {} THEN reg
    ELSE LET id == CHOOSE x \in ids : TRUE
         IN  RemoveAll(RemoveToken(reg, id), ids \ {id})

\* C5 amended: an invocation that ends in an error leaves the persisted state
\* as it was only when the error comes before its first effect (the flag
\* check, a configuration check of create_oat, the auth call or its response,
\* the first export write, or, without --create, any point before a DELETE
\* has succeeded).  A later error leaves in place what was done before it:
\* after a failed token-creation call the DOCKERHUB_BEARER line (and the
\* created token when only a field of the response was missing), after an
\* error in revoke_oats the three lines and the created token, and every
\* token whose DELETE had succeeded stays deleted.
C5_ErrorKeepsEarlierEffects ==
    (pc = "exited" /\ exitCode = 1) =>
        /\ exc.at \in {"main", "create-env", "auth", "auth-shape", "write-bearer"}
              => (envFile = EarlierLines /\ registry = registry0)
        /\ (~args.create /\ OkDeleted = {})
              => (envFile = EarlierLines /\ registry = registry0)
        /\ exc.at = "mint"
              => /\ AppendedLines = <<EnvLine("DOCKERHUB_BEARER", NewBearer)>>
                 /\ registry = registry0
        /\ exc.at = "mint-shape"
              => /\ AppendedLines = <<EnvLine("DOCKERHUB_BEARER", NewBearer)>>
                 /\ registry = Append(registry0, MintedToken)
        /\ (args.create /\ exc.at \in {"revoke-env", "list", "select", "delete"})
              => /\ Len(AppendedLines) = 3
                 /\ registry = RemoveAll(Append(registry0, MintedToken), OkDeleted)
        /\ ~args.create
              => /\ envFile = EarlierLines
                 /\ registry = RemoveAll(registry0, OkDeleted)

C5_Witness ==
    /\ pc = "exited"
    /\ exitCode = 1
    /\ args.create
    /\ exc.at = "delete"
    /\ OkDeleted # {}
    /\ Len(AppendedLines) = 3
    /\ registry # registry0

Masked(v, i) == \E j \in 1..(i - 1) : trace[j].kind = "mask" /\ trace[j].arg = v

\* C6: in create_oat the username and the password are masked before the
\* first HTTP request, the bearer token before it is exported or used in a
\* request, and the new token secret before it is exported.
C6_MaskingPrecedesExposure ==
    \A i \in 1..Len(trace) :
        /\ trace[i].what \in {"POST auth", "POST token"}
              => /\ Masked(env.DOCKERHUB_USERNAME, i)
                 /\ Masked(env.DOCKERHUB_PASSWORD, i)
        /\ (trace[i].kind = "write" /\ trace[i].what = "DOCKERHUB_BEARER")
              => Masked(trace[i].arg, i)
        /\ trace[i].what = "POST token" => Masked(trace[i].cred, i)
        /\ (trace[i].kind = "write" /\ trace[i].what = "NEW_OAT")
              => Masked(trace[i].arg, i)

C6_Witness ==
    /\ pc = "exited"
    /\ exitCode = 0
    /\ \E i \in 1..Len(trace) : trace[i].kind = "write" /\ trace[i].what = "NEW_OAT"
    /\ \E i \in 1..Len(trace) : trace[i].what = "POST token" /\ trace[i].cred = NewBearer
    /\ Cardinality({i \in 1..Len(trace) : trace[i].kind = "mask"}) = 4

(***************************************************************************)
(*                           Specifications                                *)
(***************************************************************************)

FilterInit == FilterStart /\ CfgIdle /\ RotIdle
FilterNext == FilterLoop \/ FilterWrite
SpecFilter == FilterInit /\ [][FilterNext]_vars

CfgInit == CfgStart /\ FilterIdle /\ RotIdle
CfgNext == CfgMerge \/ CfgWrite
SpecCfg == CfgInit /\ [][CfgNext]_vars

\* the merger run with no file at the override path
CfgNoRepoInit == CfgStartNoRepo /\ FilterIdle /\ RotIdle
SpecCfgNoRepo == CfgNoRepoInit /\ [][CfgNext]_vars

RotInit == RotStart /\ FilterIdle /\ CfgIdle
SpecRot == RotInit /\ [][RotNext]_vars

====
